---- MODULE Spec2Model ----
(***************************************************************************)
(* Tic-tac-toe engine: Board / Move (models.py), the Easy, Medium and Hard *)
(* strategies (ai_strategy.py), AIStrategyFactory / AIPersonality /        *)
(* AIOpponent (ai_opponent.py) and the GameEngine session state machine    *)
(* (game_engine.py).                                                       *)
(*                                                                         *)
(* A grid is a 3-tuple of 3-tuples of cells; grid[x][y] of the source is   *)
(* Cell(grid, x, y) here (coordinates stay 0-based).  A Move is the pair   *)
(* <<x, y>>.  Python None is NoBoard / NoMove / NoOpponent / "None".       *)
(***************************************************************************)
EXTENDS Integers, Sequences, FiniteSets, TLC

VARIABLES
    board,           \* GameEngine.board      (the Board's grid, or NoBoard)
    current_player,  \* GameEngine.current_player
    ai_opponent,     \* GameEngine.ai_opponent (AIOpponent's fields, or NoOpponent)
    game_status,     \* GameEngine.game_status
    player_mark,     \* GameEngine.player_mark
    ai_mark,         \* GameEngine.ai_mark
    last,            \* observer: the last public call and its outcome
    optimal,         \* observer: every AI move on the current Board was Hard's own suggestion
    side_calls,      \* observer: calls so far that were rejected or reconfigured the opponent
    hard_memo,       \* HardAIStrategy.find_best_move on the opening positions, searched once
    sp_board,        \* self-play harness: the grid two Hard strategies play on
    sp_turn,         \* self-play harness: the mark to move
    sp_opening,      \* self-play harness: number of marks placed before the strategies took over
    fn_grid,         \* function harness: the grid a strategy or Board method is called on
    fn_call,         \* function harness: the call made on fn_grid ("none" before it)
    fn_out           \* function harness: the arguments and the outcome of that call

vars == <<board, current_player, ai_opponent, game_status, player_mark, ai_mark,
          last, optimal, side_calls, hard_memo, sp_board, sp_turn, sp_opening,
          fn_grid, fn_call, fn_out>>

engineVars == <<board, current_player, ai_opponent, game_status, player_mark, ai_mark,
                last, optimal, side_calls>>

harnessVars == <<sp_board, sp_turn, sp_opening>>

functionVars == <<fn_grid, fn_call, fn_out>>

\* the function harness at rest
FnIdle ==
    /\ fn_grid = <<>>
    /\ fn_call = "none"
    /\ fn_out = <<>>

----------------------------------------------------------------------------
(* Bounds of the model *)

\* marks placed alternately on the empty grid before self-play starts
MaxOpening == 2

\* rejected and reconfiguring calls in one behaviour of Spec
MaxSideCalls == 1

\* rejected and reconfiguring calls in one behaviour of HardSpec
MaxHardSideCalls == 2

----------------------------------------------------------------------------
(* models.py : Move and Board *)

EMPTY == ""

NoBoard == <<>>

NoMove == <<>>

NegInf == -100

PosInf == 100

Move(x, y) == <<x, y>>

\* Board.__init__ with grid=None
EmptyGrid == << <<EMPTY, EMPTY, EMPTY>>, <<EMPTY, EMPTY, EMPTY>>, <<EMPTY, EMPTY, EMPTY>> >>

Cell(grid, x, y) == grid[x + 1][y + 1]

InBounds(x, y) == 0 <= x /\ x < 3 /\ 0 <= y /\ y < 3

\* the coordinates in the order of the two nested range(3) loops (row-major)
AllCells ==
    << <<0, 0>>, <<0, 1>>, <<0, 2>>, <<1, 0>>, <<1, 1>>, <<1, 2>>, <<2, 0>>, <<2, 1>>, <<2, 2>> >>

\* the nine cells as a set
CellSet == (0..2) \X (0..2)

get_empty_cells(grid) ==
    SelectSeq(AllCells, LAMBDA m : Cell(grid, m[1], m[2]) = EMPTY)

\* make_move_error with the bounds check reporting the occupied-cell error
make_move_error_one_message(grid, move) ==
    IF ~InBounds(move[1], move[2]) THEN "CellOccupied"
    ELSE IF Cell(grid, move[1], move[2]) # EMPTY THEN "CellOccupied"
    ELSE "None"

\* Board.make_move: the error it raises, or "None"
make_move_error(grid, move) ==
    IF ~InBounds(move[1], move[2]) THEN "OutOfBounds"
    ELSE IF Cell(grid, move[1], move[2]) # EMPTY THEN "CellOccupied"
    ELSE "None"

\* Board.make_move past its two checks
make_move(grid, move, mark) ==
    [grid EXCEPT ![move[1] + 1][move[2] + 1] = mark]

\* undo_move that leaves the cell as it is
undo_move_keeping_mark(grid, move) == grid

\* Board.undo_move (for an in-bounds move)
undo_move(grid, move) ==
    [grid EXCEPT ![move[1] + 1][move[2] + 1] = EMPTY]

\* rows, then columns, then the two diagonals
check_win(grid, mark) ==
    \/ (grid[1][1] = mark /\ grid[1][2] = mark /\ grid[1][3] = mark)
    \/ (grid[2][1] = mark /\ grid[2][2] = mark /\ grid[2][3] = mark)
    \/ (grid[3][1] = mark /\ grid[3][2] = mark /\ grid[3][3] = mark)
    \/ (grid[1][1] = mark /\ grid[2][1] = mark /\ grid[3][1] = mark)
    \/ (grid[1][2] = mark /\ grid[2][2] = mark /\ grid[3][2] = mark)
    \/ (grid[1][3] = mark /\ grid[2][3] = mark /\ grid[3][3] = mark)
    \/ (grid[1][1] = mark /\ grid[2][2] = mark /\ grid[3][3] = mark)
    \/ (grid[1][3] = mark /\ grid[2][2] = mark /\ grid[3][1] = mark)

\* what get_winning_line returns when no line is complete
NoLine == <<>>

\* Board.get_winning_line: the first line held by one mark, rows first, then
\* columns, then the two diagonals
get_winning_line(grid) ==
    LET held(a, b, c) == /\ Cell(grid, a[1], a[2]) # EMPTY
                         /\ Cell(grid, a[1], a[2]) = Cell(grid, b[1], b[2])
                         /\ Cell(grid, b[1], b[2]) = Cell(grid, c[1], c[2])
        candidates == << <<Move(0, 0), Move(0, 1), Move(0, 2)>>,
                         <<Move(1, 0), Move(1, 1), Move(1, 2)>>,
                         <<Move(2, 0), Move(2, 1), Move(2, 2)>>,
                         <<Move(0, 0), Move(1, 0), Move(2, 0)>>,
                         <<Move(0, 1), Move(1, 1), Move(2, 1)>>,
                         <<Move(0, 2), Move(1, 2), Move(2, 2)>>,
                         <<Move(0, 0), Move(1, 1), Move(2, 2)>>,
                         <<Move(0, 2), Move(1, 1), Move(2, 0)>> >>
        found == SelectSeq(candidates, LAMBDA l : held(l[1], l[2], l[3]))
    IN  IF found = <<>> THEN NoLine ELSE found[1]

check_draw(grid) ==
    \A x \in 0..2 : \A y \in 0..2 : Cell(grid, x, y) # EMPTY

is_game_over(grid) ==
    check_win(grid, "X") \/ check_win(grid, "O") \/ check_draw(grid)

Other(mark) == IF mark = "X" THEN "O" ELSE "X"

Count(grid, mark) ==
    Cardinality({k \in 0..8 : Cell(grid, k \div 3, k % 3) = mark})

----------------------------------------------------------------------------
(* ai_strategy.py : HardAIStrategy *)

Max(a, b) == IF a >= b THEN a ELSE b

Min(a, b) == IF a <= b THEN a ELSE b

RECURSIVE Minimax(_, _, _, _, _, _, _)
RECURSIVE MaxLoop(_, _, _, _, _, _, _, _, _)
RECURSIVE MinLoop(_, _, _, _, _, _, _, _, _)

\* _minimax that does not score the opponent's completed line
MinimaxBlindToLosses(grid, depth, is_maximizing, aiM, oppM, alpha, beta) ==
    IF check_win(grid, aiM) THEN [eval |-> 10 - depth, grid |-> grid]
    ELSE IF check_draw(grid) THEN [eval |-> 0, grid |-> grid]
    ELSE IF is_maximizing
         THEN MaxLoop(grid, get_empty_cells(grid), 1, depth, aiM, oppM, alpha, beta, NegInf)
         ELSE MinLoop(grid, get_empty_cells(grid), 1, depth, aiM, oppM, alpha, beta, PosInf)

\* _minimax that scores a win 10 and a loss -10 at every depth
MinimaxFlatScores(grid, depth, is_maximizing, aiM, oppM, alpha, beta) ==
    IF check_win(grid, aiM) THEN [eval |-> 10, grid |-> grid]
    ELSE IF check_win(grid, oppM) THEN [eval |-> -10, grid |-> grid]
    ELSE IF check_draw(grid) THEN [eval |-> 0, grid |-> grid]
    ELSE IF is_maximizing
         THEN MaxLoop(grid, get_empty_cells(grid), 1, depth, aiM, oppM, alpha, beta, NegInf)
         ELSE MinLoop(grid, get_empty_cells(grid), 1, depth, aiM, oppM, alpha, beta, PosInf)

\* _minimax: returns the evaluation and the grid as the call leaves it
Minimax(grid, depth, is_maximizing, aiM, oppM, alpha, beta) ==
    IF check_win(grid, aiM) THEN [eval |-> 10 - depth, grid |-> grid]
    ELSE IF check_win(grid, oppM) THEN [eval |-> depth - 10, grid |-> grid]
    ELSE IF check_draw(grid) THEN [eval |-> 0, grid |-> grid]
    ELSE IF is_maximizing
         THEN MaxLoop(grid, get_empty_cells(grid), 1, depth, aiM, oppM, alpha, beta, NegInf)
         ELSE MinLoop(grid, get_empty_cells(grid), 1, depth, aiM, oppM, alpha, beta, PosInf)

\* the maximizing for-loop that breaks on a cutoff with the trial mark still placed
MaxLoopCutBeforeUndo(grid, cells, i, depth, aiM, oppM, alpha, beta, max_eval) ==
    IF i > Len(cells) THEN [eval |-> max_eval, grid |-> grid]
    ELSE LET r  == Minimax(make_move(grid, cells[i], aiM), depth + 1, FALSE,
                           aiM, oppM, alpha, beta)
             me == Max(max_eval, r.eval)
             al == Max(alpha, r.eval)
         IN  IF beta <= al THEN [eval |-> me, grid |-> r.grid]
             ELSE MaxLoop(undo_move(r.grid, cells[i]), cells, i + 1, depth, aiM, oppM,
                          al, beta, me)

\* the maximizing for-loop of _minimax, at the i-th empty cell
MaxLoop(grid, cells, i, depth, aiM, oppM, alpha, beta, max_eval) ==
    IF i > Len(cells) THEN [eval |-> max_eval, grid |-> grid]
    ELSE LET r  == Minimax(make_move(grid, cells[i], aiM), depth + 1, FALSE,
                           aiM, oppM, alpha, beta)
             g  == undo_move(r.grid, cells[i])
             me == Max(max_eval, r.eval)
             al == Max(alpha, r.eval)
         IN  IF beta <= al THEN [eval |-> me, grid |-> g]
             ELSE MaxLoop(g, cells, i + 1, depth, aiM, oppM, al, beta, me)

\* the minimizing for-loop with the cutoff test turned round (cut when alpha <= beta)
MinLoopCutInverted(grid, cells, i, depth, aiM, oppM, alpha, beta, min_eval) ==
    IF i > Len(cells) THEN [eval |-> min_eval, grid |-> grid]
    ELSE LET r  == Minimax(make_move(grid, cells[i], oppM), depth + 1, TRUE,
                           aiM, oppM, alpha, beta)
             g  == undo_move(r.grid, cells[i])
             me == Min(min_eval, r.eval)
             be == Min(beta, r.eval)
         IN  IF alpha <= be THEN [eval |-> me, grid |-> g]
             ELSE MinLoop(g, cells, i + 1, depth, aiM, oppM, alpha, be, me)

\* the minimizing for-loop of _minimax, at the i-th empty cell
MinLoop(grid, cells, i, depth, aiM, oppM, alpha, beta, min_eval) ==
    IF i > Len(cells) THEN [eval |-> min_eval, grid |-> grid]
    ELSE LET r  == Minimax(make_move(grid, cells[i], oppM), depth + 1, TRUE,
                           aiM, oppM, alpha, beta)
             g  == undo_move(r.grid, cells[i])
             me == Min(min_eval, r.eval)
             be == Min(beta, r.eval)
         IN  IF be <= alpha THEN [eval |-> me, grid |-> g]
             ELSE MinLoop(g, cells, i + 1, depth, aiM, oppM, alpha, be, me)

RECURSIVE HardLoopLastBest(_, _, _, _, _, _)
\* the root for-loop that lets a later move of equal score replace the best one
HardLoopLastBest(grid, cells, i, mark, best_score, best_move) ==
    IF i > Len(cells) THEN [exc |-> "None", move |-> best_move, grid |-> grid]
    ELSE LET r == Minimax(make_move(grid, cells[i], mark), 0, FALSE,
                          mark, Other(mark), NegInf, PosInf)
             g == undo_move(r.grid, cells[i])
         IN  IF r.eval >= best_score
             THEN HardLoopLastBest(g, cells, i + 1, mark, r.eval, cells[i])
             ELSE HardLoopLastBest(g, cells, i + 1, mark, best_score, best_move)

RECURSIVE HardLoop(_, _, _, _, _, _)
\* the root for-loop of HardAIStrategy.find_best_move, at the i-th empty cell
HardLoop(grid, cells, i, mark, best_score, best_move) ==
    IF i > Len(cells) THEN [exc |-> "None", move |-> best_move, grid |-> grid]
    ELSE LET r == Minimax(make_move(grid, cells[i], mark), 0, FALSE,
                          mark, Other(mark), NegInf, PosInf)
             g == undo_move(r.grid, cells[i])
         IN  IF r.eval > best_score
             THEN HardLoop(g, cells, i + 1, mark, r.eval, cells[i])
             ELSE HardLoop(g, cells, i + 1, mark, best_score, best_move)

\* the score find_best_move computes for the root move c: the mark is placed and
\* _minimax is called at depth 0 for the opponent's turn with the full window
RootScore(grid, c, mark) ==
    Minimax(make_move(grid, c, mark), 0, FALSE, mark, Other(mark), NegInf, PosInf).eval

\* HardAIStrategy.find_best_move, searched
HardSearch(grid, mark) ==
    HardLoop(grid, get_empty_cells(grid), 1, mark, NegInf, NoMove)

\* HardAIStrategy.find_best_move; an opening position is looked up in hard_memo,
\* which holds HardSearch of it
HardFindBestMove(grid, mark) ==
    IF <<grid, mark>> \in DOMAIN hard_memo
    THEN hard_memo[<<grid, mark>>]
    ELSE HardSearch(grid, mark)

----------------------------------------------------------------------------
(* ai_strategy.py : EasyAIStrategy and MediumAIStrategy *)

\* A find_best_move outcome: the exception it raises (or "None"), the move it
\* returns and the grid as the call leaves it.
Returned(move, grid) == [exc |-> "None", move |-> move, grid |-> grid]

Raised(exc, grid) == [exc |-> exc, move |-> NoMove, grid |-> grid]

\* the values of random.random() the model draws, in tenths
RandomDraws == {0, 4, 9}

\* random.choice(seq) for the draw d
RandomChoice(seq, d) == seq[(d * Len(seq)) \div 10 + 1]

\* EasyAIStrategy.find_best_move: one outcome per draw of random.choice
EasyFindBestMove(grid, draws) ==
    LET empty_cells == get_empty_cells(grid)
    IN  IF empty_cells = <<>> THEN {Returned(NoMove, grid)}
        ELSE {Returned(RandomChoice(empty_cells, d), grid) : d \in draws}

RECURSIVE WinningMoveLoop(_, _, _, _)
\* the for-loop of MediumAIStrategy._find_winning_move, at the i-th empty cell
WinningMoveLoop(grid, cells, i, mark) ==
    IF i > Len(cells) THEN [move |-> NoMove, grid |-> grid]
    ELSE LET placed == make_move(grid, cells[i], mark)
             is_win == check_win(placed, mark)
             g      == undo_move(placed, cells[i])
         IN  IF is_win THEN [move |-> cells[i], grid |-> g]
             ELSE WinningMoveLoop(g, cells, i + 1, mark)

\* _find_winning_move that keeps scanning and returns the last winning cell
find_last_winning_move(grid, mark) ==
    LET cells == get_empty_cells(grid)
        backwards == [i \in 1..Len(cells) |-> cells[Len(cells) + 1 - i]]
    IN  WinningMoveLoop(grid, backwards, 1, mark)

find_winning_move(grid, mark) ==
    WinningMoveLoop(grid, get_empty_cells(grid), 1, mark)

\* ai_strategy.py imports only random and abc: the name Move that
\* MediumAIStrategy.find_best_move uses for the center is not bound in the module
MoveNameBound == FALSE

\* MediumAIStrategy.find_best_move that looks for the block before the win
MediumBlockFirst(grid, mark, draws) ==
    LET opponent_mark == Other(mark)
        blocking == find_winning_move(grid, opponent_mark)
        winning  == find_winning_move(blocking.grid, mark)
        g        == winning.grid
    IN  IF blocking.move # NoMove THEN {Returned(blocking.move, blocking.grid)}
        ELSE IF winning.move # NoMove THEN {Returned(winning.move, g)}
        ELSE {Raised("NameError", g)}

\* MediumAIStrategy.find_best_move that never looks for a block
MediumWithoutBlock(grid, mark, draws) ==
    LET winning == find_winning_move(grid, mark)
    IN  IF winning.move # NoMove THEN {Returned(winning.move, winning.grid)}
        ELSE {Raised("NameError", winning.grid)}

\* MediumAIStrategy.find_best_move: one outcome per draw of random.choice
MediumFindBestMove(grid, mark, draws) ==
    LET opponent_mark == Other(mark)
        winning  == find_winning_move(grid, mark)
        blocking == find_winning_move(winning.grid, opponent_mark)
        g        == blocking.grid
        empty_cells == get_empty_cells(g)
    IN  IF winning.move # NoMove THEN {Returned(winning.move, winning.grid)}
        ELSE IF blocking.move # NoMove THEN {Returned(blocking.move, g)}
        ELSE IF ~MoveNameBound THEN {Raised("NameError", g)}
        ELSE IF Cell(g, 1, 1) = EMPTY THEN {Returned(Move(1, 1), g)}
        ELSE IF empty_cells # <<>>
             THEN {Returned(RandomChoice(empty_cells, d), g) : d \in draws}
             ELSE {Returned(NoMove, g)}

\* the strategy object's find_best_move, by class
FindBestMove(strategy, grid, mark, draws) ==
    CASE strategy = "Easy"   -> EasyFindBestMove(grid, draws)
      [] strategy = "Medium" -> MediumFindBestMove(grid, mark, draws)
      [] strategy = "Hard"   -> {HardFindBestMove(grid, mark)}

----------------------------------------------------------------------------
(* ai_opponent.py : AIStrategyFactory, AIPersonality, AIOpponent *)

\* str.lower() on the difficulty strings the model passes in
Lower(s) == IF s = "HARD" THEN "hard" ELSE s

\* AIStrategyFactory.create_strategy: the strategy class, or "Invalid" when it raises
create_strategy(difficulty) ==
    IF Lower(difficulty) = "easy" THEN "Easy"
    ELSE IF Lower(difficulty) = "medium" THEN "Medium"
    ELSE IF Lower(difficulty) = "hard" THEN "Hard"
    ELSE "Invalid"

\* randomness factors are in tenths: 10 is 1.0
Clamp(randomness_factor) == Max(0, Min(10, randomness_factor))

DefaultRandomness == 1

\* AIPersonality.move_preferences, in tenths
move_preferences(move) ==
    IF move = <<1, 1>> THEN 15
    ELSE IF move[1] # 1 /\ move[2] # 1 THEN 12
    ELSE 10

\* AIPersonality.should_make_suboptimal_move, for the draw d of random.random()
should_make_suboptimal_move(randomness_factor, d) == d < randomness_factor

RECURSIVE SumWeights(_, _)
SumWeights(cands, i) ==
    IF i > Len(cands) THEN 0 ELSE move_preferences(cands[i]) + SumWeights(cands, i + 1)

RECURSIVE WeightedWalk(_, _, _, _)
\* the cumulative walk of adjust_move against r10 = 10 * r; NoMove when it falls through
WeightedWalk(cands, i, upto, r10) ==
    IF i > Len(cands) THEN NoMove
    ELSE IF 10 * (upto + move_preferences(cands[i])) >= r10 THEN cands[i]
    ELSE WeightedWalk(cands, i + 1, upto + move_preferences(cands[i]), r10)

\* adjust_move that keeps the suggested move among its candidates
adjust_move_among_all_cells(suggested_move, grid, draws) ==
    LET empty_cells == get_empty_cells(grid)
        total_weight == SumWeights(empty_cells, 1)
    IN  IF Len(empty_cells) <= 1 THEN {suggested_move}
        ELSE { LET w == WeightedWalk(empty_cells, 1, 0, total_weight * d)
               IN  IF w # NoMove THEN w ELSE RandomChoice(empty_cells, d)
               : d \in draws }

\* AIPersonality.adjust_move: one move per draw of random.uniform(0, total_weight)
adjust_move(suggested_move, grid, draws) ==
    LET empty_cells == get_empty_cells(grid)
        suboptimal_candidates == SelectSeq(empty_cells, LAMBDA m : m # suggested_move)
        total_weight == SumWeights(suboptimal_candidates, 1)
    IN  IF Len(empty_cells) <= 1 THEN {suggested_move}
        ELSE IF suboptimal_candidates = <<>> THEN {suggested_move}
        ELSE { LET w == WeightedWalk(suboptimal_candidates, 1, 0, total_weight * d)
               IN  IF w # NoMove THEN w
                   ELSE RandomChoice(suboptimal_candidates, d)
               : d \in draws }

NoOpponent ==
    [difficulty_level |-> "None", player_mark |-> "None", ai_mark |-> "None",
     strategy |-> "None", randomness_factor |-> 0]

\* AIOpponent.__init__ (for a difficulty create_strategy accepts)
NewAIOpponent(difficulty, pmark) ==
    [difficulty_level |-> difficulty, player_mark |-> pmark, ai_mark |-> Other(pmark),
     strategy |-> create_strategy(difficulty), randomness_factor |-> Clamp(DefaultRandomness)]

\* AIOpponent.make_move: the outcomes, each with the note whether the
\* personality took over
AIOpponentMakeMove(opp, grid, draws) ==
    LET takes_over == {should_make_suboptimal_move(opp.randomness_factor, d) : d \in draws}
    IN  UNION { IF s.exc # "None"
                THEN {[exc |-> s.exc, move |-> NoMove, grid |-> s.grid, perturbed |-> FALSE]}
                ELSE UNION { IF p
                             THEN {[exc |-> "None", move |-> m, grid |-> s.grid,
                                    perturbed |-> TRUE] : m \in adjust_move(s.move, s.grid, draws)}
                             ELSE {[exc |-> "None", move |-> s.move, grid |-> s.grid,
                                    perturbed |-> FALSE]}
                             : p \in takes_over }
                : s \in FindBestMove(opp.strategy, grid, opp.ai_mark, draws) }

----------------------------------------------------------------------------
(* game_engine.py : GameEngine *)

\* inputs of the public operations
MarkInputs == {"X", "O", "Z"}

DifficultyInputs == {"easy", "medium", "expert"}

MoveInputs == {<<x, y>> : x \in 0..2, y \in 0..2} \cup {<<3, 0>>}

RandomnessInputs == {0, 15}

\* the engine's fields as one record
Engine ==
    [board |-> board, current_player |-> current_player, ai_opponent |-> ai_opponent,
     game_status |-> game_status, player_mark |-> player_mark, ai_mark |-> ai_mark]

\* _update_game_status_after_move that tests the full board before the line
update_game_status_draw_first(e, mark) ==
    IF check_draw(e.board)
    THEN [e EXCEPT !.game_status = "draw"]
    ELSE IF check_win(e.board, mark)
    THEN IF mark = e.player_mark
         THEN [e EXCEPT !.game_status = "player_win"]
         ELSE [e EXCEPT !.game_status = "ai_win"]
    ELSE [e EXCEPT !.current_player = IF e.current_player = "X" THEN "O" ELSE "X"]

\* _update_game_status_after_move without its win check
update_game_status_ignoring_wins(e, mark) ==
    IF check_draw(e.board)
    THEN [e EXCEPT !.game_status = "draw"]
    ELSE [e EXCEPT !.current_player = IF e.current_player = "X" THEN "O" ELSE "X"]

\* _update_game_status_after_move
update_game_status_after_move(e, mark) ==
    IF check_win(e.board, mark)
    THEN IF mark = e.player_mark
         THEN [e EXCEPT !.game_status = "player_win"]
         ELSE [e EXCEPT !.game_status = "ai_win"]
    ELSE IF check_draw(e.board)
    THEN [e EXCEPT !.game_status = "draw"]
    ELSE [e EXCEPT !.current_player = IF e.current_player = "X" THEN "O" ELSE "X"]

\* _process_ai_move: the outcomes [e, exc, by_hard], one per AIOpponent.make_move
\* outcome; by_hard tells that no move was made or that Hard's own suggestion was
process_ai_move(e, draws) ==
    IF e.game_status # "in_progress" \/ e.current_player # e.ai_mark
    THEN {[e |-> e, exc |-> "None", by_hard |-> TRUE]}
    ELSE { IF o.exc # "None"
           THEN [e |-> [e EXCEPT !.board = o.grid], exc |-> o.exc, by_hard |-> TRUE]
           ELSE IF o.move = NoMove
           THEN [e |-> [e EXCEPT !.board = o.grid], exc |-> "None", by_hard |-> TRUE]
           ELSE IF make_move_error(o.grid, o.move) # "None"
           THEN [e |-> [e EXCEPT !.board = o.grid],
                 exc |-> make_move_error(o.grid, o.move), by_hard |-> TRUE]
           ELSE [e |-> update_game_status_after_move(
                          [e EXCEPT !.board = make_move(o.grid, o.move, e.ai_mark)], e.ai_mark),
                 exc |-> "None",
                 by_hard |-> (e.ai_opponent.strategy = "Hard" /\ ~o.perturbed)]
           : o \in AIOpponentMakeMove(e.ai_opponent, e.board, draws) }

\* how a public call ends: the engine it leaves, what it returns or raises
\* (result), whether it built a new Board (fresh) and by_hard of its AI move
Outcome(e, result, fresh, by_hard) ==
    [e |-> e, result |-> result, fresh |-> fresh, by_hard |-> by_hard]

\* a raise that comes after the turn was already handed over
RejectedAfterTurnFlip(e, err) ==
    Outcome([e EXCEPT !.current_player = IF e.current_player = "X" THEN "O" ELSE "X"],
            err, FALSE, TRUE)

\* a raise ValueError of a public operation in engine state e
Rejected(e, err) == Outcome(e, err, FALSE, TRUE)

\* a public operation past its own work, with the AI's reply from engine state e
WithAIMove(e, fresh, draws) ==
    {Outcome(a.e, IF a.exc = "None" THEN "ok" ELSE a.exc, fresh, a.by_hard)
       : a \in process_ai_move(e, draws)}

\* start_new_game that gives the first turn to the human's mark
start_new_game_human_first(e, pm, difficulty, draws) ==
    LET e1 == [e EXCEPT !.board = EmptyGrid, !.player_mark = pm,
                        !.ai_mark = IF pm = "X" THEN "O" ELSE "X"]
        e2 == [e1 EXCEPT !.ai_opponent = NewAIOpponent(difficulty, pm),
                         !.current_player = pm, !.game_status = "in_progress"]
    IN  IF pm \notin {"X", "O"} THEN {Rejected(e, "InvalidMark")}
        ELSE IF create_strategy(difficulty) = "Invalid"
        THEN {Outcome(e1, "InvalidDifficulty", TRUE, TRUE)}
        ELSE IF e2.ai_mark = "X" THEN WithAIMove(e2, TRUE, draws)
        ELSE {Outcome(e2, "ok", TRUE, TRUE)}

\* GameEngine.start_new_game(player_mark, difficulty)
start_new_game(e, pm, difficulty, draws) ==
    LET e1 == [e EXCEPT !.board = EmptyGrid, !.player_mark = pm,
                        !.ai_mark = IF pm = "X" THEN "O" ELSE "X"]
        e2 == [e1 EXCEPT !.ai_opponent = NewAIOpponent(difficulty, pm),
                         !.current_player = "X", !.game_status = "in_progress"]
    IN  IF pm \notin {"X", "O"} THEN {Rejected(e, "InvalidMark")}
        ELSE IF create_strategy(difficulty) = "Invalid"
        THEN {Outcome(e1, "InvalidDifficulty", TRUE, TRUE)}
        ELSE IF e2.ai_mark = "X" THEN WithAIMove(e2, TRUE, draws)
        ELSE {Outcome(e2, "ok", TRUE, TRUE)}

\* player_move that validates the coordinates before the game status
player_move_bounds_first(e, x, y, draws) ==
    IF ~InBounds(x, y) THEN {Rejected(e, "OutOfBounds")}
    ELSE IF e.game_status # "in_progress" THEN {Rejected(e, "GameNotInProgress")}
    ELSE IF e.current_player # e.player_mark THEN {Rejected(e, "WrongTurn")}
    ELSE IF make_move_error(e.board, Move(x, y)) # "None"
    THEN {Rejected(e, make_move_error(e.board, Move(x, y)))}
    ELSE LET e1 == update_game_status_after_move(
                      [e EXCEPT !.board = make_move(e.board, Move(x, y), e.player_mark)],
                      e.player_mark)
         IN  IF e1.game_status = "in_progress"
             THEN WithAIMove(e1, FALSE, draws)
             ELSE {Outcome(e1, "ok", FALSE, TRUE)}

\* GameEngine.player_move(x, y)
player_move(e, x, y, draws) ==
    IF e.game_status # "in_progress" THEN {Rejected(e, "GameNotInProgress")}
    ELSE IF e.current_player # e.player_mark THEN {Rejected(e, "WrongTurn")}
    ELSE IF make_move_error(e.board, Move(x, y)) # "None"
    THEN {Rejected(e, make_move_error(e.board, Move(x, y)))}
    ELSE LET e1 == update_game_status_after_move(
                      [e EXCEPT !.board = make_move(e.board, Move(x, y), e.player_mark)],
                      e.player_mark)
         IN  IF e1.game_status = "in_progress"
             THEN WithAIMove(e1, FALSE, draws)
             ELSE {Outcome(e1, "ok", FALSE, TRUE)}

\* AIOpponent.set_difficulty: the opponent it leaves
set_difficulty(opp, difficulty) ==
    IF create_strategy(difficulty) = "Invalid"
    THEN [opp EXCEPT !.difficulty_level = difficulty]
    ELSE [opp EXCEPT !.difficulty_level = difficulty, !.strategy = create_strategy(difficulty)]

\* change_difficulty that builds a new AIOpponent for the difficulty
change_difficulty_rebuilding(e, difficulty) ==
    IF e.ai_opponent # NoOpponent
    THEN IF create_strategy(difficulty) = "Invalid"
         THEN {Outcome([e EXCEPT !.ai_opponent = set_difficulty(e.ai_opponent, difficulty)],
                       "InvalidDifficulty", FALSE, TRUE)}
         ELSE {Outcome([e EXCEPT !.ai_opponent = NewAIOpponent(difficulty, e.player_mark)],
                       "True", FALSE, TRUE)}
    ELSE {Outcome(e, "False", FALSE, TRUE)}

\* GameEngine.change_difficulty(difficulty)
change_difficulty(e, difficulty) ==
    IF e.ai_opponent # NoOpponent
    THEN {Outcome([e EXCEPT !.ai_opponent = set_difficulty(e.ai_opponent, difficulty)],
                  IF create_strategy(difficulty) = "Invalid" THEN "InvalidDifficulty" ELSE "True",
                  FALSE, TRUE)}
    ELSE {Outcome(e, "False", FALSE, TRUE)}

\* GameEngine.set_ai_personality(randomness_factor), with AIOpponent.set_personality
set_ai_personality(e, randomness_factor) ==
    IF e.ai_opponent # NoOpponent
    THEN {Outcome([e EXCEPT !.ai_opponent.randomness_factor = Clamp(randomness_factor)],
                  "True", FALSE, TRUE)}
    ELSE {Outcome(e, "False", FALSE, TRUE)}

\* a call that did not play: it was rejected, or it only configured the opponent
IsSideCall(result) == result \notin {"ok", "NameError"}

\* the public call op ends with outcome o, within the budget of side calls
Return(op, o, budget) ==
    /\ board' = o.e.board
    /\ current_player' = o.e.current_player
    /\ ai_opponent' = o.e.ai_opponent
    /\ game_status' = o.e.game_status
    /\ player_mark' = o.e.player_mark
    /\ ai_mark' = o.e.ai_mark
    /\ last' = [op |-> op, result |-> o.result]
    /\ optimal' = ((o.fresh \/ optimal) /\ o.by_hard)
    /\ IF IsSideCall(o.result)
       THEN side_calls < budget /\ side_calls' = side_calls + 1
       ELSE UNCHANGED side_calls
    /\ UNCHANGED <<hard_memo, sp_board, sp_turn, sp_opening>>
    /\ UNCHANGED functionVars

\* GameEngine.__init__
EngineInit ==
    /\ board = NoBoard
    /\ current_player = "None"
    /\ ai_opponent = NoOpponent
    /\ game_status = "not_started"
    /\ player_mark = "None"
    /\ ai_mark = "None"
    /\ last = [op |-> "init", result |-> "ok"]
    /\ optimal = TRUE
    /\ side_calls = 0

Init ==
    /\ EngineInit
    /\ hard_memo = <<>>
    /\ sp_board = EmptyGrid
    /\ sp_turn = "X"
    /\ sp_opening = 0
    /\ FnIdle

StartNewGame ==
    \E pm \in MarkInputs, difficulty \in DifficultyInputs :
        \E o \in start_new_game(Engine, pm, difficulty, RandomDraws) :
            Return("start_new_game", o, MaxSideCalls)

PlayerMove ==
    \E m \in MoveInputs :
        \E o \in player_move(Engine, m[1], m[2], RandomDraws) :
            Return("player_move", o, MaxSideCalls)

ChangeDifficulty ==
    \E difficulty \in DifficultyInputs :
        \E o \in change_difficulty(Engine, difficulty) :
            Return("change_difficulty", o, MaxSideCalls)

SetAiPersonality ==
    \E randomness_factor \in RandomnessInputs :
        \E o \in set_ai_personality(Engine, randomness_factor) :
            Return("set_ai_personality", o, MaxSideCalls)

Next ==
    \/ StartNewGame
    \/ PlayerMove
    \/ ChangeDifficulty
    \/ SetAiPersonality

Spec == Init /\ [][Next]_vars

----------------------------------------------------------------------------
(* Sessions without chance: the difficulties are medium and hard (and an     *)
(* invalid one), and random.random() never falls below the default          *)
(* randomness factor, so the personality never takes over                    *)

HardDifficultyInputs == {"medium", "hard", "expert"}

SteadyDraws == {d \in RandomDraws : d >= DefaultRandomness}

\* the empty grid and the grids with one mark
OpeningGrids ==
    {EmptyGrid} \cup {make_move(EmptyGrid, AllCells[i], mark) : i \in 1..9, mark \in {"X", "O"}}

HardMemo ==
    [p \in OpeningGrids \X {"X", "O"} |-> HardSearch(p[1], p[2])]

HardInit ==
    /\ EngineInit
    /\ hard_memo = HardMemo
    /\ sp_board = EmptyGrid
    /\ sp_turn = "X"
    /\ sp_opening = 0
    /\ FnIdle

HardStartNewGame ==
    \E pm \in {"X", "O"}, difficulty \in HardDifficultyInputs :
        \E o \in start_new_game(Engine, pm, difficulty, SteadyDraws) :
            Return("start_new_game", o, MaxHardSideCalls)

HardPlayerMove ==
    \E m \in MoveInputs :
        \E o \in player_move(Engine, m[1], m[2], SteadyDraws) :
            Return("player_move", o, MaxHardSideCalls)

HardChangeDifficulty ==
    \E difficulty \in HardDifficultyInputs :
        \E o \in change_difficulty(Engine, difficulty) :
            Return("change_difficulty", o, MaxHardSideCalls)

HardNext ==
    \/ HardStartNewGame
    \/ HardPlayerMove
    \/ HardChangeDifficulty

HardSpec == HardInit /\ [][HardNext]_vars

----------------------------------------------------------------------------
(* Self-play harness: HardAIStrategy chooses the moves of both marks *)

RECURSIVE Positions(_)
\* the grids with n marks placed alternately, X first, each with the mark to move
Positions(n) ==
    IF n = 0 THEN {<<EmptyGrid, "X">>}
    ELSE UNION { {<<make_move(p[1], m, p[2]), Other(p[2])>> :
                    m \in {AllCells[j] : j \in 1..9} \cap
                          {c \in (0..2) \X (0..2) : Cell(p[1], c[1], c[2]) = EMPTY}}
                 : p \in {q \in Positions(n - 1) : ~is_game_over(q[1])} }

SelfPlayInit ==
    /\ \E n \in 0..MaxOpening : \E p \in {q \in Positions(n) : ~is_game_over(q[1])} :
          /\ sp_board = p[1]
          /\ sp_turn = p[2]
          /\ sp_opening = n
    /\ EngineInit
    /\ hard_memo = <<>>
    /\ FnIdle

SelfPlayStep ==
    /\ ~is_game_over(sp_board)
    /\ LET r == HardFindBestMove(sp_board, sp_turn)
       IN  /\ sp_board' = make_move(r.grid, r.move, sp_turn)
           /\ sp_turn' = Other(sp_turn)
    /\ UNCHANGED <<sp_opening, hard_memo>>
    /\ UNCHANGED engineVars
    /\ UNCHANGED functionVars

SelfPlayNext == SelfPlayStep

SelfPlaySpec == SelfPlayInit /\ [][SelfPlayNext]_vars

----------------------------------------------------------------------------
(* Function harness: one call of a strategy's find_best_move on any 3x3 grid *)

Rows == {<<a, b, c>> : a \in {EMPTY, "X", "O"}, b \in {EMPTY, "X", "O"}, c \in {EMPTY, "X", "O"}}

\* every grid Board.__init__ accepts with cells '', 'X' or 'O'
Grids == Rows \X Rows \X Rows

FnInit ==
    /\ fn_grid \in Grids
    /\ fn_call = "none"
    /\ fn_out = <<>>
    /\ EngineInit
    /\ hard_memo = <<>>
    /\ sp_board = EmptyGrid
    /\ sp_turn = "X"
    /\ sp_opening = 0

\* strategy.find_best_move(Board(fn_grid), mark)
CallFindBestMove(strategy) ==
    /\ fn_call = "none"
    /\ \E mark \in {"X", "O"} :
         \E r \in FindBestMove(strategy, fn_grid, mark, RandomDraws) :
            /\ fn_call' = strategy
            /\ fn_out' = [mark |-> mark, exc |-> r.exc, move |-> r.move, grid |-> r.grid]
    /\ UNCHANGED <<fn_grid, hard_memo>>
    /\ UNCHANGED engineVars
    /\ UNCHANGED harnessVars

EasyCall == CallFindBestMove("Easy")

MediumCall == CallFindBestMove("Medium")

HardCall == CallFindBestMove("Hard")

StrategyNext ==
    \/ EasyCall
    \/ MediumCall
    \/ HardCall

StrategySpec == FnInit /\ [][StrategyNext]_vars

----------------------------------------------------------------------------
(* Function harness: one call of adjust_move, or of make_move then undo_move *)

\* what a strategy hands to adjust_move: an empty cell of the grid, or None
SuggestedInputs(grid) ==
    {c \in CellSet : Cell(grid, c[1], c[2]) = EMPTY} \cup {NoMove}

\* personality.adjust_move(suggested_move, Board(fn_grid))
AdjustMoveCall ==
    /\ fn_call = "none"
    /\ \E suggested_move \in SuggestedInputs(fn_grid) :
         \E m \in adjust_move(suggested_move, fn_grid, RandomDraws) :
            /\ fn_call' = "adjust_move"
            /\ fn_out' = [suggested_move |-> suggested_move, move |-> m]
    /\ UNCHANGED <<fn_grid, hard_memo>>
    /\ UNCHANGED engineVars
    /\ UNCHANGED harnessVars

\* board.make_move(move, mark) on an empty in-bounds cell, then board.undo_move(move)
MakeUndoCall ==
    /\ fn_call = "none"
    /\ \E move \in CellSet, mark \in {"X", "O"} :
         /\ make_move_error(fn_grid, move) = "None"
         /\ fn_call' = "make_undo"
         /\ fn_out' = [move |-> move, mark |-> mark,
                       placed |-> make_move(fn_grid, move, mark),
                       grid |-> undo_move(make_move(fn_grid, move, mark), move)]
    /\ UNCHANGED <<fn_grid, hard_memo>>
    /\ UNCHANGED engineVars
    /\ UNCHANGED harnessVars

BoardNext ==
    \/ AdjustMoveCall
    \/ MakeUndoCall

BoardSpec == FnInit /\ [][BoardNext]_vars

----------------------------------------------------------------------------
(* Search harness: X and O place marks in turn from the empty board until a *)
(* line or a full board, and at any position Hard may be asked for the move *)
(* of the side whose turn it is                                             *)

\* the mark whose turn it is when X moved first
ToMove(grid) == IF Count(grid, "X") = Count(grid, "O") THEN "X" ELSE "O"

PlayInit ==
    /\ fn_grid = EmptyGrid
    /\ fn_call = "none"
    /\ fn_out = <<>>
    /\ EngineInit
    /\ hard_memo = <<>>
    /\ sp_board = EmptyGrid
    /\ sp_turn = "X"
    /\ sp_opening = 0

\* board.make_move(move, mark) by the side to move, on a board not yet over
PlaceMark ==
    /\ fn_call = "none"
    /\ ~is_game_over(fn_grid)
    /\ \E move \in CellSet :
         /\ make_move_error(fn_grid, move) = "None"
         /\ fn_grid' = make_move(fn_grid, move, ToMove(fn_grid))
    /\ UNCHANGED <<fn_call, fn_out, hard_memo>>
    /\ UNCHANGED engineVars
    /\ UNCHANGED harnessVars

\* HardAIStrategy().find_best_move(Board(fn_grid), mark) for the side to move
AskHard ==
    /\ fn_call = "none"
    /\ ~is_game_over(fn_grid)
    /\ LET mark == ToMove(fn_grid)
           r    == HardFindBestMove(fn_grid, mark)
       IN  /\ fn_call' = "HardInPlay"
           /\ fn_out' = [mark |-> mark, exc |-> r.exc, move |-> r.move, grid |-> r.grid]
    /\ UNCHANGED <<fn_grid, hard_memo>>
    /\ UNCHANGED engineVars
    /\ UNCHANGED harnessVars

PlayNext ==
    \/ PlaceMark
    \/ AskHard

PlaySpec == PlayInit /\ [][PlayNext]_vars

----------------------------------------------------------------------------
(* Properties *)

TerminalStatuses == {"player_win", "ai_win", "draw"}

MoveRejections == {"GameNotInProgress", "WrongTurn", "OutOfBounds", "CellOccupied"}

\* C1: a player_move call that is rejected with GameNotInProgress, WrongTurn,
\* OutOfBounds or CellOccupied leaves board, game_status and current_player as
\* they were (so no AI mark is placed in that call).
C1_RejectedMoveChangesNothing ==
    [][(last'.op = "player_move" /\ last'.result \in MoveRejections)
          => UNCHANGED <<board, game_status, current_player>>]_vars

\* a move onto an occupied cell was rejected in a running game
C1_Witness ==
    /\ last = [op |-> "player_move", result |-> "CellOccupied"]
    /\ game_status = "in_progress"
    /\ Count(board, "X") + Count(board, "O") >= 2

\* C2: a start_new_game call rejected with InvalidMark or InvalidDifficulty, in
\* any engine state, leaves board, game_status, current_player, player_mark,
\* ai_mark and the AIOpponent unchanged.
C2_RejectedStartChangesNothing ==
    [][(last'.op = "start_new_game" /\ last'.result \in {"InvalidMark", "InvalidDifficulty"})
          => UNCHANGED <<board, game_status, current_player, player_mark, ai_mark,
                         ai_opponent>>]_vars

\* C3: a terminal game_status is changed by no player_move, change_difficulty or
\* set_ai_personality call; the only step that leaves it is a start_new_game call
\* that succeeds.
C3_TerminalLeftOnlyBySuccessfulStart ==
    [][(game_status \in TerminalStatuses /\ game_status' # game_status)
          => last' = [op |-> "start_new_game", result |-> "ok"]]_vars

\* C4: after every public call, the number of X marks on the board equals the
\* number of O marks or exceeds it by exactly one.
C4_MarkCountsBalanced ==
    board # NoBoard =>
        \/ Count(board, "X") = Count(board, "O")
        \/ Count(board, "X") = Count(board, "O") + 1

\* C5: on every board the engine reaches, check_win("X") and check_win("O") are
\* not both true.
C5_AtMostOneWinner ==
    board # NoBoard => ~(check_win(board, "X") /\ check_win(board, "O"))

\* a game won on a board where the loser holds three marks too
C5_Witness ==
    /\ game_status \in {"player_win", "ai_win"}
    /\ check_win(board, "X") \/ check_win(board, "O")
    /\ Count(board, "X") >= 3
    /\ Count(board, "O") >= 3

\* C6: when the opponent's strategy is Hard and every AI mark on the board was
\* Hard's own suggestion (the personality never took over), game_status is
\* never player_win.
C6_HardNeverLoses ==
    (ai_opponent.strategy = "Hard" /\ optimal) => game_status # "player_win"

\* C7: Hard choosing the moves of both marks from the empty board: when the game
\* is over the board is full and neither mark has a line.
C7_SelfPlayEndsInDraw ==
    (sp_opening = 0 /\ is_game_over(sp_board)) =>
        /\ check_draw(sp_board)
        /\ ~check_win(sp_board, "X")
        /\ ~check_win(sp_board, "O")

\* self-play from the empty board has filled the board
C7_Witness ==
    /\ sp_opening = 0
    /\ check_draw(sp_board)
    /\ Count(sp_board, "X") = 5
    /\ Count(sp_board, "O") = 4

\* C8 as stated: in every state, player_move(3, 0) fails with OutOfBounds.
C8_AlwaysOutOfBounds ==
    \A o \in player_move(Engine, 3, 0, RandomDraws) : o.result = "OutOfBounds"

\* C8 amended: player_move(3, 0) always fails and changes nothing; the error is
\* GameNotInProgress when game_status is not in_progress, WrongTurn when it is
\* in_progress and current_player is not the human's mark, and OutOfBounds
\* otherwise.
C8_OutOfBoundsAfterStatusAndTurn ==
    \A o \in player_move(Engine, 3, 0, RandomDraws) :
        /\ o.e = Engine
        /\ o.result = IF game_status # "in_progress" THEN "GameNotInProgress"
                      ELSE IF current_player # player_mark THEN "WrongTurn"
                      ELSE "OutOfBounds"

\* player_move(3, 0), the only out-of-bounds input, was rejected in a running game
C8_Witness ==
    /\ last = [op |-> "player_move", result |-> "OutOfBounds"]
    /\ game_status = "in_progress"
    /\ current_player = player_mark

\* C9: a player_move call made while game_status is not in_progress fails with
\* GameNotInProgress, whatever the coordinates.
C9_NotInProgressRejected ==
    [][(game_status # "in_progress" /\ last'.op = "player_move")
          => last'.result = "GameNotInProgress"]_vars

\* a move was rejected after the game ended in a draw
C9_Witness ==
    /\ last = [op |-> "player_move", result |-> "GameNotInProgress"]
    /\ game_status = "draw"

\* C10: when start_new_game has returned successfully, game_status is
\* in_progress and current_player is the human's mark; the board is empty if the
\* human is X, and holds exactly one X and no O if the human is O.
C10_FreshBoardAfterStart ==
    last = [op |-> "start_new_game", result |-> "ok"] =>
        /\ game_status = "in_progress"
        /\ current_player = player_mark
        /\ player_mark = "X" => board = EmptyGrid
        /\ player_mark = "O" => (Count(board, "X") = 1 /\ Count(board, "O") = 0)

\* a session in which the human is O has started and the AI has opened
C10_Witness ==
    /\ last = [op |-> "start_new_game", result |-> "ok"]
    /\ player_mark = "O"
    /\ Count(board, "X") = 1
    /\ game_status = "in_progress"

\* a cell's position in row-major order
RowMajor(c) == 3 * c[1] + c[2]

\* the eight lines of the grid, as sets of cells
Lines ==
    {{<<r, 0>>, <<r, 1>>, <<r, 2>>} : r \in 0..2} \cup
    {{<<0, k>>, <<1, k>>, <<2, k>>} : k \in 0..2} \cup
    {{<<0, 0>>, <<1, 1>>, <<2, 2>>}, {<<0, 2>>, <<1, 1>>, <<2, 0>>}}

\* mark holds all three cells of some line
HasLine(grid, mark) ==
    \E line \in Lines : \A c \in line : Cell(grid, c[1], c[2]) = mark

\* the empty cells of grid where placing mark leaves mark with a complete line
CompletingCells(grid, mark) ==
    {c \in CellSet : Cell(grid, c[1], c[2]) = EMPTY /\ HasLine(make_move(grid, c, mark), mark)}

\* the first cell of a non-empty set of cells in row-major order
FirstCell(cells) == CHOOSE c \in cells : \A d \in cells : RowMajor(c) <= RowMajor(d)

\* C13: Medium, on a board where some empty cell completes a line for the AI's
\* mark, returns the first such cell in row-major order, whether or not the
\* opponent threatens a line too.
C13_MediumTakesFirstWin ==
    (fn_call = "Medium" /\ CompletingCells(fn_grid, fn_out.mark) # {}) =>
        /\ fn_out.exc = "None"
        /\ fn_out.move = FirstCell(CompletingCells(fn_grid, fn_out.mark))

\* Medium took a win on a board without a line yet, where two cells win and the
\* opponent threatens as well
C13_Witness ==
    /\ fn_call = "Medium"
    /\ ~HasLine(fn_grid, "X") /\ ~HasLine(fn_grid, "O")
    /\ Cardinality(CompletingCells(fn_grid, fn_out.mark)) >= 2
    /\ CompletingCells(fn_grid, Other(fn_out.mark)) # {}
    /\ fn_out.move = FirstCell(CompletingCells(fn_grid, fn_out.mark))

\* C14: Medium, on a board where no empty cell completes a line for the AI's
\* mark but some empty cell completes one for the opponent, returns the first
\* such opponent cell in row-major order.
C14_MediumBlocksFirstThreat ==
    (/\ fn_call = "Medium"
     /\ CompletingCells(fn_grid, fn_out.mark) = {}
     /\ CompletingCells(fn_grid, Other(fn_out.mark)) # {}) =>
        /\ fn_out.exc = "None"
        /\ fn_out.move = FirstCell(CompletingCells(fn_grid, Other(fn_out.mark)))

\* Medium blocked on a board without a line yet, where the opponent threatens twice
C14_Witness ==
    /\ fn_call = "Medium"
    /\ ~HasLine(fn_grid, "X") /\ ~HasLine(fn_grid, "O")
    /\ CompletingCells(fn_grid, fn_out.mark) = {}
    /\ Cardinality(CompletingCells(fn_grid, Other(fn_out.mark))) >= 2
    /\ fn_out.move = FirstCell(CompletingCells(fn_grid, Other(fn_out.mark)))

\* the board of the scenario: X X . / O O . / . . .
ScenarioBoard == << <<"X", "X", EMPTY>>, <<"O", "O", EMPTY>>, <<EMPTY, EMPTY, EMPTY>> >>

\* C15 as stated: on the scenario board with AI mark O, Medium returns (1,2), the
\* AI has no cell that completes a line, and (1,2) is the cell that blocks X.
C15_ReturnsOneTwoAsBlock ==
    (fn_call = "Medium" /\ fn_grid = ScenarioBoard /\ fn_out.mark = "O") =>
        /\ fn_out.move = <<1, 2>>
        /\ CompletingCells(ScenarioBoard, "O") = {}
        /\ <<1, 2>> \in CompletingCells(ScenarioBoard, "X")

\* C15 amended: on the scenario board with AI mark O, Medium returns (1,2)
\* because (1,2) completes O's own line; X's threat is at (0,2), which (1,2)
\* does not block.
C15_ReturnsOneTwoAsWin ==
    (fn_call = "Medium" /\ fn_grid = ScenarioBoard /\ fn_out.mark = "O") =>
        /\ fn_out.exc = "None"
        /\ fn_out.move = <<1, 2>>
        /\ CompletingCells(ScenarioBoard, "O") = {<<1, 2>>}
        /\ CompletingCells(ScenarioBoard, "X") = {<<0, 2>>}

\* Medium was called with mark O on the scenario board and returned (1,2)
C15_Witness ==
    /\ fn_call = "Medium"
    /\ fn_grid = ScenarioBoard
    /\ fn_out.mark = "O"
    /\ fn_out.move = <<1, 2>>

\* C18: find_best_move of Easy, Medium and Hard raises nothing, returns none
\* exactly when the board has no empty cell, and otherwise returns a cell that
\* is empty on the board.
C18_MoveIffEmptyCell ==
    fn_call \in {"Easy", "Medium", "Hard"} =>
        /\ fn_out.exc = "None"
        /\ (fn_out.move = NoMove) <=> (get_empty_cells(fn_grid) = <<>>)
        /\ fn_out.move # NoMove => Cell(fn_grid, fn_out.move[1], fn_out.move[2]) = EMPTY

\* C18 for the Easy and Hard strategies alone
C18_EasyAndHardOnly ==
    fn_call \in {"Easy", "Hard"} =>
        /\ fn_out.exc = "None"
        /\ (fn_out.move = NoMove) <=> (get_empty_cells(fn_grid) = <<>>)
        /\ fn_out.move # NoMove => Cell(fn_grid, fn_out.move[1], fn_out.move[2]) = EMPTY

\* the number of empty cells of a grid
EmptyCount(grid) == Cardinality({c \in CellSet : Cell(grid, c[1], c[2]) = EMPTY})

\* C19: adjust_move returns the suggested move unchanged on a board with fewer
\* than two empty cells; on a board with at least two empty cells, one of them
\* suggested, it returns an empty cell other than the suggested one, whatever
\* the random draw.
C19_AdjustMovePicksAnotherEmptyCell ==
    fn_call = "adjust_move" =>
        /\ EmptyCount(fn_grid) < 2 => fn_out.move = fn_out.suggested_move
        /\ (EmptyCount(fn_grid) >= 2 /\ fn_out.suggested_move # NoMove) =>
              /\ fn_out.move \in CellSet
              /\ Cell(fn_grid, fn_out.move[1], fn_out.move[2]) = EMPTY
              /\ fn_out.move # fn_out.suggested_move

\* adjust_move replaced the suggested center by the last empty cell of a board
\* with marks of both kinds
C19_Witness ==
    /\ fn_call = "adjust_move"
    /\ EmptyCount(fn_grid) >= 3
    /\ Count(fn_grid, "X") >= 1 /\ Count(fn_grid, "O") >= 1
    /\ fn_out.suggested_move = <<1, 1>>
    /\ fn_out.move = <<2, 2>>

\* C20: make_move(move, mark) on an empty in-bounds cell followed by
\* undo_move(move) leaves all nine cells as they were before make_move.
C20_MakeUndoRestoresGrid ==
    fn_call = "make_undo" =>
        \A c \in CellSet : Cell(fn_out.grid, c[1], c[2]) = Cell(fn_grid, c[1], c[2])

\* a mark was placed on a board holding both marks, and taken back
C20_Witness ==
    /\ fn_call = "make_undo"
    /\ Count(fn_grid, "X") >= 1 /\ Count(fn_grid, "O") >= 1
    /\ Cell(fn_out.placed, fn_out.move[1], fn_out.move[2]) = fn_out.mark
    /\ Cell(fn_out.grid, fn_out.move[1], fn_out.move[2]) = EMPTY

\* what an accepted player_move(m) must leave on the board: the human's mark on
\* m and, unless that placement ended the game, one AI mark on another cell
\* that was empty
OneMarkEach(before, after, m, human, ai) ==
    LET placed == make_move(before, m, human)
    IN  IF HasLine(placed, human) \/ EmptyCount(placed) = 0
        THEN after = placed
        ELSE \E c \in CellSet :
                /\ c # m
                /\ Cell(before, c[1], c[2]) = EMPTY
                /\ after = make_move(placed, c, ai)

\* C11: every player_move that passes validation places the human's mark on the
\* submitted cell; if the game is still in progress after that, the same call
\* places exactly one AI mark on a different cell that was empty, and otherwise
\* it places no AI mark.
C11_AcceptedMovePlacesOneMarkEach ==
    \A m \in MoveInputs : \A o \in player_move(Engine, m[1], m[2], RandomDraws) :
        o.result \notin MoveRejections =>
            OneMarkEach(board, o.e.board, m, player_mark, ai_mark)

\* C11 for the calls that return normally
C11_ReturnedMovePlacesOneMarkEach ==
    \A m \in MoveInputs : \A o \in player_move(Engine, m[1], m[2], RandomDraws) :
        o.result = "ok" =>
            OneMarkEach(board, o.e.board, m, player_mark, ai_mark)

\* C12: a move that fills the last empty cell and completes a line for the mover
\* sets player_win or ai_win according to the mover, never draw; draw is set
\* only on a full board on which no mark has a line.
C12_WinCheckedBeforeDraw ==
    [][/\ (game_status' = "draw" /\ game_status # "draw") =>
            /\ EmptyCount(board') = 0
            /\ ~HasLine(board', "X")
            /\ ~HasLine(board', "O")
       /\ (/\ board' # board
           /\ EmptyCount(board') = 0
           /\ HasLine(board', "X") \/ HasLine(board', "O")) =>
            game_status' = IF HasLine(board', player_mark') THEN "player_win" ELSE "ai_win"
      ]_vars

\* the human's last move filled the board and completed a line
C12_Witness ==
    /\ last = [op |-> "player_move", result |-> "ok"]
    /\ game_status = "player_win"
    /\ EmptyCount(board) = 0
    /\ HasLine(board, player_mark)

\* the board after X takes the center and O answers in the corner (0,0)
CenterThenCorner ==
    make_move(make_move(EmptyGrid, <<1, 1>>, "X"), <<0, 0>>, "O")

\* C16: right after start_new_game("X", "hard"), with the personality switched
\* off (randomness factor 0), player_move(1, 1) succeeds, leaves the game in
\* progress and the AI answers in that call on the corner (0,0).
C16_HardAnswersCenterWithCorner ==
    (/\ last = [op |-> "start_new_game", result |-> "ok"]
     /\ player_mark = "X"
     /\ ai_opponent.difficulty_level = "hard") =>
        \A p \in set_ai_personality(Engine, 0) :
            \A o \in player_move(p.e, 1, 1, RandomDraws) :
                /\ o.result = "ok"
                /\ o.e.game_status = "in_progress"
                /\ o.e.board = CenterThenCorner

\* in a session started with hard, the human took the center and Hard the corner
C16_Witness ==
    /\ last = [op |-> "player_move", result |-> "ok"]
    /\ ai_opponent.difficulty_level = "hard"
    /\ ai_opponent.strategy = "Hard"
    /\ player_mark = "X"
    /\ optimal
    /\ board = CenterThenCorner
    /\ game_status = "in_progress"

\* the engine fields that neither change_difficulty nor set_ai_personality may touch
SameSession(e) ==
    /\ e.board = board
    /\ e.game_status = game_status
    /\ e.current_player = current_player
    /\ e.player_mark = player_mark
    /\ e.ai_mark = ai_mark

\* C17 as stated: both calls return false when no session was ever started and
\* true otherwise, leave board, game_status, current_player, player_mark and
\* ai_mark unchanged; change_difficulty keeps the personality and
\* set_ai_personality keeps the strategy.
C17_TrueWheneverASessionExists ==
    /\ \A d \in DifficultyInputs : \A o \in change_difficulty(Engine, d) :
          /\ o.result = IF game_status = "not_started" THEN "False" ELSE "True"
          /\ SameSession(o.e)
          /\ o.e.ai_opponent.randomness_factor = ai_opponent.randomness_factor
    /\ \A f \in RandomnessInputs : \A o \in set_ai_personality(Engine, f) :
          /\ o.result = IF game_status = "not_started" THEN "False" ELSE "True"
          /\ SameSession(o.e)
          /\ o.e.ai_opponent.strategy = ai_opponent.strategy

\* C17 amended: as stated, except that change_difficulty with an unrecognized
\* difficulty, once a session was started, raises InvalidDifficulty instead of
\* returning true, and then keeps the strategy as well as the personality.
C17_TrueForRecognizedDifficulty ==
    /\ \A d \in DifficultyInputs : \A o \in change_difficulty(Engine, d) :
          /\ o.result = IF game_status = "not_started" THEN "False"
                        ELSE IF Lower(d) \in {"easy", "medium", "hard"} THEN "True"
                        ELSE "InvalidDifficulty"
          /\ SameSession(o.e)
          /\ o.e.ai_opponent.randomness_factor = ai_opponent.randomness_factor
          /\ o.result = "InvalidDifficulty" =>
                o.e.ai_opponent.strategy = ai_opponent.strategy
          /\ o.result = "False" => o.e.ai_opponent = ai_opponent
    /\ \A f \in RandomnessInputs : \A o \in set_ai_personality(Engine, f) :
          /\ o.result = IF game_status = "not_started" THEN "False" ELSE "True"
          /\ SameSession(o.e)
          /\ o.e.ai_opponent.strategy = ai_opponent.strategy
          /\ o.result = "False" => o.e.ai_opponent = ai_opponent

\* change_difficulty returned true in the middle of a game and replaced the strategy
C17_Witness ==
    /\ last = [op |-> "change_difficulty", result |-> "True"]
    /\ game_status = "in_progress"
    /\ Count(board, "X") >= 1
    /\ ai_opponent.difficulty_level = "medium"
    /\ ai_opponent.strategy = "Medium"

\* C21: find_best_move of Easy, Medium and Hard leaves the board as it found
\* it, whether it returns a move, returns none or raises: every trial placement
\* of the search is undone, those before an alpha-beta cutoff included.
C21_SearchLeavesBoardIntact ==
    fn_call \in {"Easy", "Medium", "Hard"} => fn_out.grid = fn_grid

\* Hard searched the empty board, where branches are cut off at every depth,
\* and returned a move
C21_Witness ==
    /\ fn_call = "Hard"
    /\ fn_grid = EmptyGrid
    /\ fn_out.move # NoMove
    /\ fn_out.grid = EmptyGrid

\* the empty cells of grid, as a set
EmptyCellSet(grid) == {c \in CellSet : Cell(grid, c[1], c[2]) = EMPTY}

\* the empty cells whose root score for mark is the greatest
BestCells(grid, mark) ==
    LET scored == {<<c, RootScore(grid, c, mark)>> : c \in EmptyCellSet(grid)}
    IN  {p[1] : p \in {q \in scored : \A r \in scored : r[2] <= q[2]}}

\* C22: Hard, on a board with an empty cell, returns the first cell in
\* row-major order among the empty cells of greatest minimax score; when some
\* empty cell completes a line for the AI's mark, the move returned is the first
\* such cell in row-major order.
C22_HardReturnsFirstBestCell ==
    (fn_call = "Hard" /\ EmptyCellSet(fn_grid) # {}) =>
        /\ fn_out.move = FirstCell(BestCells(fn_grid, fn_out.mark))
        /\ CompletingCells(fn_grid, fn_out.mark) # {} =>
               fn_out.move = FirstCell(CompletingCells(fn_grid, fn_out.mark))

\* Hard took the first of two immediate wins on a board without a line yet,
\* passing over an earlier empty cell that does not win at once
C22_Witness ==
    /\ fn_call = "Hard"
    /\ ~HasLine(fn_grid, "X") /\ ~HasLine(fn_grid, "O")
    /\ Cardinality(CompletingCells(fn_grid, fn_out.mark)) >= 2
    /\ fn_out.move = FirstCell(CompletingCells(fn_grid, fn_out.mark))
    /\ \E c \in EmptyCellSet(fn_grid) : RowMajor(c) < RowMajor(fn_out.move)

\* the greatest and the least element of a non-empty set of integers
SetMax(S) == CHOOSE m \in S : \A n \in S : n <= m

SetMin(S) == CHOOSE m \in S : \A n \in S : m <= n

RECURSIVE PlainMinimax(_, _, _, _, _)
\* the depth-adjusted minimax value of a position, over the whole game tree:
\* _minimax without alpha, beta and the two breaks
PlainMinimax(grid, depth, is_maximizing, aiM, oppM) ==
    IF check_win(grid, aiM) THEN 10 - depth
    ELSE IF check_win(grid, oppM) THEN depth - 10
    ELSE IF check_draw(grid) THEN 0
    ELSE LET evals == {PlainMinimax(make_move(grid, c, IF is_maximizing THEN aiM ELSE oppM),
                                    depth + 1, ~is_maximizing, aiM, oppM)
                         : c \in EmptyCellSet(grid)}
         IN  IF is_maximizing THEN SetMax(evals) ELSE SetMin(evals)

\* the unpruned score of every root move of mark on grid, as <<cell, score>> pairs
PlainScores(grid, mark) ==
    {<<c, PlainMinimax(make_move(grid, c, mark), 0, FALSE, mark, Other(mark))>>
       : c \in EmptyCellSet(grid)}

\* the root move a search with these scores returns: the first cell in
\* row-major order among the cells of greatest score
FirstOfBest(scored) ==
    FirstCell({p[1] : p \in {q \in scored : \A r \in scored : r[2] <= q[2]}})

\* C23: on every board reached in play, for the mark to move, the score Hard
\* computes with alpha-beta pruning for each root move equals the unpruned
\* depth-adjusted minimax score of that move, and the move Hard returns is the
\* move the unpruned search returns.
C23_PrunedEqualsUnpruned ==
    fn_call = "HardInPlay" =>
        LET plain == PlainScores(fn_grid, fn_out.mark)
        IN  /\ \A p \in plain : RootScore(fn_grid, p[1], fn_out.mark) = p[2]
            /\ fn_out.move = FirstOfBest(plain)

\* Hard was asked for O's move in the middle of a game, three marks on the board
C23_Witness ==
    /\ fn_call = "HardInPlay"
    /\ fn_out.mark = "O"
    /\ Count(fn_grid, "X") = 2 /\ Count(fn_grid, "O") = 1
    /\ fn_out.move # NoMove

\* the results with which a public operation returns (every other result is a raise)
ReturnedResults == {"ok", "True", "False"}

\* game_status says what the board shows
StatusAgreesWithBoard ==
    LET no_line == ~HasLine(board, "X") /\ ~HasLine(board, "O")
    IN  /\ game_status = "player_win" <=> HasLine(board, player_mark)
        /\ game_status = "ai_win" <=> HasLine(board, ai_mark)
        /\ game_status = "draw" <=> (EmptyCellSet(board) = {} /\ no_line)
        /\ game_status = "in_progress" <=> (EmptyCellSet(board) # {} /\ no_line)

\* the winning_line a player_move that returns now would report is a line
\* exactly when the status is a win
WinningLineAgreesWithStatus ==
    (get_winning_line(board) # NoLine) <=> (game_status \in {"player_win", "ai_win"})

\* C24: once a game was started, after every public operation that returns,
\* game_status is player_win iff the human's mark holds a line, ai_win iff the
\* AI's mark holds a line, draw iff the board is full without a line and
\* in_progress iff the board has an empty cell and no line; and after player_move
\* the winning line it reports is non-null exactly when the status is a win.
C24_StatusAgreesWithBoard ==
    (game_status # "not_started" /\ last.result \in ReturnedResults) =>
        /\ StatusAgreesWithBoard
        /\ last.op = "player_move" => WinningLineAgreesWithStatus

\* C24 for the operations that play: after start_new_game or player_move returns
C24_AgreesAfterPlay ==
    (last.op \in {"start_new_game", "player_move"} /\ last.result = "ok") =>
        StatusAgreesWithBoard /\ WinningLineAgreesWithStatus

\* C25: after every public operation that returns with game_status in_progress
\* it is the human's turn (current_player = player_mark), and no player_move is
\* ever rejected with WrongTurn.
C25_NeverWrongTurn ==
    /\ (last.result \in ReturnedResults /\ game_status = "in_progress") =>
           current_player = player_mark
    /\ ~(last.op = "player_move" /\ last.result = "WrongTurn")

\* C25 for the operations that play: after start_new_game or player_move
\* returns with game_status in_progress it is the human's turn
C25_HumanToMoveAfterPlay ==
    (/\ last.op \in {"start_new_game", "player_move"}
     /\ last.result = "ok"
     /\ game_status = "in_progress") =>
        current_player = player_mark

\* some player_move on the current engine is not rejected
LegalPlayerMoveExists ==
    \E m \in CellSet :
        \E o \in player_move(Engine, m[1], m[2], RandomDraws) : o.result \notin MoveRejections

\* C26: in a session that is in progress (the state a start_new_game that raised
\* leaves behind set aside) the human has placed at most four marks, so that a
\* fifth accepted player_move ends the game, and some player_move is still legal.
C26_SessionTerminates ==
    (/\ game_status = "in_progress"
     /\ ~(last.op = "start_new_game" /\ last.result # "ok")) =>
        /\ Count(board, player_mark) <= 4
        /\ LegalPlayerMoveExists

\* C26 for the states where it is the human's turn
C26_TerminatesWhenHumanToMove ==
    (game_status = "in_progress" /\ current_player = player_mark) =>
        /\ Count(board, player_mark) <= 4
        /\ LegalPlayerMoveExists

====
